---- MODULE Spec2Model ----
(***************************************************************************)
(* Model of the ink! contract `Foobar` (src/foobar/lib.rs): one boolean    *)
(* in storage, two constructors (`new`, `default`), two messages (`flip`,  *)
(* `get`) and two events (`Created`, `Flipped`).                           *)
(*                                                                         *)
(* The host runs each constructor or message to completion before the next *)
(* one starts, so each of them is one atomic action.  `events` is the log  *)
(* of emitted events of the instance; `ctor`, `init_value` and `trace` are *)
(* history variables recording which calls were made and what they         *)
(* returned, so that properties over sequences of calls can be stated.     *)
(***************************************************************************)
EXTENDS Naturals, Sequences, FiniteSets

\* Longest sequence of message calls (flip/get) explored after construction.
MaxCalls == 6

VARIABLES
    pc,          \* "uninstantiated" before a constructor ran, "live" after
    value,       \* Foobar.value, the stored flag (meaningful when live)
    events,      \* events emitted so far, oldest first
    ctor,        \* history: constructor that was called ("none" before)
    init_value,  \* history: the argument `new` received
    trace        \* history: message calls made so far, oldest first

vars == <<pc, value, events, ctor, init_value, trace>>

----------------------------------------------------------------------------
\* Events

\* Created { message: String::from("Foobar created") }
Created == [event |-> "Created", message |-> "Foobar created"]

\* Flipped { flip }
Flipped(flip) == [event |-> "Flipped", flip |-> flip]

\* Self::env().emit_event(e) / self.env().emit_event(e): append to the log.
emit_event(log, e) == Append(log, e)

----------------------------------------------------------------------------
\* Constructors

\* <bool as Default>::default(), the argument `default` passes to `new`.
bool_default_true == TRUE
bool_default == FALSE

\* Body of `new`: emit Created, then build Self { value: init_value }.
new_drops_argument(arg) ==
    /\ pc = "uninstantiated"
    /\ events' = emit_event(events, Created)
    /\ value' = FALSE
    /\ init_value' = arg
    /\ pc' = "live"
    /\ UNCHANGED trace
new_emits_nothing(arg) ==
    /\ pc = "uninstantiated"
    /\ UNCHANGED events
    /\ value' = arg
    /\ init_value' = arg
    /\ pc' = "live"
    /\ UNCHANGED trace
new(arg) ==
    /\ pc = "uninstantiated"
    /\ events' = emit_event(events, Created)
    /\ value' = arg
    /\ init_value' = arg
    /\ pc' = "live"
    /\ UNCHANGED trace

\* The caller instantiates the contract with `new(arg)`.
CallNew(arg) ==
    /\ new(arg)
    /\ ctor' = "new"

\* The caller instantiates the contract with `default()`, which delegates
\* to `new(Default::default())`.
default ==
    /\ new(bool_default)
    /\ ctor' = "default"

----------------------------------------------------------------------------
\* Messages

\* `!self.value`, the value `flip` stores.
negate_keeps(v) == v
negate_sets(v) == TRUE
negate(v) == ~v

\* flip(&mut self): store the negation, then emit Flipped with the stored
\* (new) value.
flip_emits_old ==
    /\ pc = "live"
    /\ Len(trace) < MaxCalls
    /\ value' = negate(value)
    /\ events' = emit_event(events, Flipped(value))
    /\ trace' = Append(trace, [op |-> "flip", pre |-> value, post |-> value'])
    /\ UNCHANGED <<pc, ctor, init_value>>
flip_emits_created ==
    /\ pc = "live"
    /\ Len(trace) < MaxCalls
    /\ value' = negate(value)
    /\ events' = emit_event(emit_event(events, Flipped(value')), Created)
    /\ trace' = Append(trace, [op |-> "flip", pre |-> value, post |-> value'])
    /\ UNCHANGED <<pc, ctor, init_value>>
flip_only_from_false ==
    /\ pc = "live"
    /\ Len(trace) < MaxCalls
    /\ value = FALSE
    /\ value' = negate(value)
    /\ events' = emit_event(events, Flipped(value'))
    /\ trace' = Append(trace, [op |-> "flip", pre |-> value, post |-> value'])
    /\ UNCHANGED <<pc, ctor, init_value>>
flip ==
    /\ pc = "live"
    /\ Len(trace) < MaxCalls
    /\ value' = negate(value)
    /\ events' = emit_event(events, Flipped(value'))
    /\ trace' = Append(trace, [op |-> "flip", pre |-> value, post |-> value'])
    /\ UNCHANGED <<pc, ctor, init_value>>

\* get(&self) -> bool: return self.value; storage and log untouched.
get_emits ==
    /\ pc = "live"
    /\ Len(trace) < MaxCalls
    /\ trace' = Append(trace,
                       [op |-> "get", pre |-> value, post |-> value,
                        ret |-> value])
    /\ events' = emit_event(events, Flipped(value))
    /\ UNCHANGED <<pc, value, ctor, init_value>>
get ==
    /\ pc = "live"
    /\ Len(trace) < MaxCalls
    /\ trace' = Append(trace,
                       [op |-> "get", pre |-> value, post |-> value,
                        ret |-> value])
    /\ UNCHANGED <<pc, value, events, ctor, init_value>>

----------------------------------------------------------------------------
\* Specification

Init ==
    /\ pc = "uninstantiated"
    /\ value = FALSE
    /\ events = <<>>
    /\ ctor = "none"
    /\ init_value = FALSE
    /\ trace = <<>>

Next ==
    \/ \E arg \in BOOLEAN : CallNew(arg)
    \/ default
    \/ flip
    \/ get

Spec == Init /\ [][Next]_vars

----------------------------------------------------------------------------
\* Helpers for stating properties over the recorded history

IsFlip(c) == c.op = "flip"
IsGet(c) == c.op = "get"
IsFlippedEvent(e) == e.event = "Flipped"
IsCreatedEvent(e) == e.event = "Created"

\* The flip calls made so far, and the Flipped events emitted so far.
FlipCalls == SelectSeq(trace, IsFlip)
FlippedEvents == SelectSeq(events, IsFlippedEvent)

\* Number of flip calls among the first n calls.
FlipsBefore(n) == Cardinality({j \in 1..n : IsFlip(trace[j])})

\* Calls i+1 .. j-1 are all get calls.
OnlyGetsBetween(i, j) == \A k \in (i + 1)..(j - 1) : IsGet(trace[k])

\* The first n calls are exactly the first n entries of ops.
PrefixIs(ops, n) ==
    /\ n <= Len(ops)
    /\ n <= Len(trace)
    /\ \A k \in 1..n : trace[k].op = ops[k]

\* The calls of the end-to-end scenario, in order.
ScenarioCalls == <<"get", "flip", "get", "flip", "get">>

\* A step that performs one get call.
GetStep ==
    /\ Len(trace') = Len(trace) + 1
    /\ IsGet(trace'[Len(trace')])

----------------------------------------------------------------------------
\* Properties

\* C1: for every v, after new(v) every get made before any flip returns v.
C1_NewThenGet ==
    ctor = "new" =>
        \A i \in 1..Len(trace) :
            (IsGet(trace[i]) /\ FlipsBefore(i) = 0) => trace[i].ret = init_value

\* C1 witness: new(TRUE) followed by a get that returned TRUE, no flip yet.
C1_Witness ==
    /\ ctor = "new"
    /\ init_value = TRUE
    /\ Len(trace) = 1
    /\ IsGet(trace[1])
    /\ trace[1].ret = TRUE

\* C2: default() is new(FALSE): it passes FALSE to new, leaves the flag at
\* FALSE with the single Created event in the log, and a get made before
\* any flip returns FALSE.
C2_DefaultIsNewFalse ==
    ctor = "default" =>
        /\ pc = "live"
        /\ init_value = FALSE
        /\ FlipsBefore(Len(trace)) = 0 =>
              /\ value = FALSE
              /\ Len(events) = 1
              /\ IsCreatedEvent(events[1])
              /\ events[1].message = "Foobar created"
        /\ \A i \in 1..Len(trace) :
              (IsGet(trace[i]) /\ FlipsBefore(i) = 0) => trace[i].ret = FALSE

\* C2 witness: default() followed by one get.
C2_Witness ==
    /\ ctor = "default"
    /\ Len(trace) = 1
    /\ IsGet(trace[1])

\* C3: one flip from flag v leaves the flag at ~v (never at v), and a get
\* that follows it returns ~v.
C3_FlipNegates ==
    \A i \in 1..Len(trace) :
        IsFlip(trace[i]) =>
            /\ trace[i].post = ~trace[i].pre
            /\ trace[i].post # trace[i].pre
            /\ i = Len(trace) => value = ~trace[i].pre
            /\ (i < Len(trace) /\ IsGet(trace[i + 1])) =>
                  trace[i + 1].ret = ~trace[i].pre

\* C3 witness: a flip from TRUE followed by a get, after an earlier flip
\* from FALSE.
C3_Witness ==
    /\ Len(trace) = 3
    /\ IsFlip(trace[1]) /\ trace[1].pre = FALSE
    /\ IsFlip(trace[2]) /\ trace[2].pre = TRUE
    /\ IsGet(trace[3])

\* C4: two consecutive flips with only gets between them bring the flag back
\* to its value before the first, and gets after the second (up to the next
\* flip) return that value.
C4_DoubleFlip ==
    \A i, j \in 1..Len(trace) :
        (i < j /\ IsFlip(trace[i]) /\ IsFlip(trace[j]) /\ OnlyGetsBetween(i, j)) =>
            /\ trace[j].post = trace[i].pre
            /\ j = Len(trace) => value = trace[i].pre
            /\ \A k \in (j + 1)..Len(trace) :
                  (IsGet(trace[k]) /\ OnlyGetsBetween(j, k)) =>
                      trace[k].ret = trace[i].pre

\* C4 witness: flip, get, flip, get starting from flag FALSE.
C4_Witness ==
    /\ Len(trace) = 4
    /\ IsFlip(trace[1]) /\ trace[1].pre = FALSE
    /\ IsGet(trace[2])
    /\ IsFlip(trace[3])
    /\ IsGet(trace[4])

\* C5: every flip emits exactly one Flipped event, and that event carries the
\* flag value after the flip (what a get right after it returns), not the
\* value before it.
C5_FlippedCarriesNewValue ==
    /\ Len(FlippedEvents) = Len(FlipCalls)
    /\ \A k \in 1..Len(FlipCalls) :
          k <= Len(FlippedEvents) =>
              /\ FlippedEvents[k].flip = FlipCalls[k].post
              /\ FlippedEvents[k].flip # FlipCalls[k].pre
    /\ (Len(trace) >= 2 /\ IsFlip(trace[Len(trace) - 1]) /\ IsGet(trace[Len(trace)])) =>
          /\ Len(events) >= 1
          /\ IsFlippedEvent(events[Len(events)])
          /\ events[Len(events)].flip = trace[Len(trace)].ret

\* C5 witness: two flips, the second directly followed by a get.
C5_Witness ==
    /\ Len(trace) = 3
    /\ IsFlip(trace[1])
    /\ IsFlip(trace[2])
    /\ IsGet(trace[3])
    /\ Len(FlippedEvents) = 2

\* C6: a constructor emits exactly one Created event with message
\* "Foobar created"; it is the first event of the log, nothing is logged
\* before construction, and no flip or get ever adds another Created.
C6_CreatedExactlyOnce ==
    /\ pc = "uninstantiated" => events = <<>>
    /\ pc = "live" =>
          /\ Len(events) >= 1
          /\ IsCreatedEvent(events[1])
          /\ events[1].message = "Foobar created"
          /\ Cardinality({k \in 1..Len(events) : IsCreatedEvent(events[k])}) = 1
          /\ trace = <<>> => Len(events) = 1

\* C6 witness: a live instance that has served both flip and get calls.
C6_Witness ==
    /\ pc = "live"
    /\ Len(FlipCalls) >= 2
    /\ Len(trace) > Len(FlipCalls)

\* C7: a get call returns the current flag, leaves the flag unchanged and
\* emits no event.
C7_GetIsPure ==
    [][GetStep =>
          /\ trace'[Len(trace')].ret = value
          /\ value' = value
          /\ events' = events
          /\ pc' = pc]_vars

\* C7 witness: a get made after a flip, with both events in the log.
C7_Witness ==
    /\ Len(trace) = 3
    /\ IsGet(trace[1])
    /\ IsFlip(trace[2])
    /\ IsGet(trace[3])
    /\ Len(events) = 2

\* C8: after new(FALSE): get returns FALSE; flip; get returns TRUE; flip;
\* get returns FALSE.
C8_Scenario ==
    (ctor = "new" /\ init_value = FALSE) =>
        /\ PrefixIs(ScenarioCalls, 1) => trace[1].ret = FALSE
        /\ PrefixIs(ScenarioCalls, 3) => trace[3].ret = TRUE
        /\ PrefixIs(ScenarioCalls, 5) => trace[5].ret = FALSE

\* C8 witness: the whole scenario has run.
C8_Witness ==
    /\ ctor = "new"
    /\ init_value = FALSE
    /\ Len(trace) = 5
    /\ PrefixIs(ScenarioCalls, 5)

\* C9: every operation is total: both constructors accept any argument, and
\* in every state of a constructed instance flip and get can be called (up
\* to the explored call depth); there is no error state.
C9_Total ==
    /\ pc \in {"uninstantiated", "live"}
    /\ pc = "uninstantiated" =>
          /\ \A arg \in BOOLEAN : ENABLED CallNew(arg)
          /\ ENABLED default
    /\ (pc = "live" /\ Len(trace) < MaxCalls) =>
          /\ ENABLED flip
          /\ ENABLED get

\* C9 witness: a live instance whose flag is TRUE and that can take calls.
C9_Witness ==
    /\ pc = "live"
    /\ value = TRUE
    /\ Len(trace) = MaxCalls - 1
    /\ Len(FlipCalls) >= 1

\* C10: the log is one Created followed by one Flipped per flip call,
\* consecutive Flipped events carry opposite values, the flag equals the
\* last Flipped value (or the constructor argument when there is none), and
\* the flag and every get equal the argument after an even number of flips
\* and its negation after an odd number.
C10_LogAndFlagConsistent ==
    pc = "live" =>
        /\ Len(events) = 1 + Len(FlipCalls)
        /\ IsCreatedEvent(events[1])
        /\ \A k \in 2..Len(events) : IsFlippedEvent(events[k])
        /\ \A k \in 2..(Len(events) - 1) : events[k + 1].flip = ~events[k].flip
        /\ value = IF Len(events) = 1 THEN init_value
                                      ELSE events[Len(events)].flip
        /\ value = IF Len(FlipCalls) % 2 = 0 THEN init_value ELSE ~init_value
        /\ \A i \in 1..Len(trace) :
              IsGet(trace[i]) =>
                  trace[i].ret = IF FlipsBefore(i) % 2 = 0 THEN init_value
                                                            ELSE ~init_value

\* C10 witness: new(TRUE), then three flips with gets among them.
C10_Witness ==
    /\ ctor = "new"
    /\ init_value = TRUE
    /\ Len(FlipCalls) = 3
    /\ Len(trace) = 5
    /\ IsGet(trace[5])

====
